---- MODULE Spec2Model ----
(***************************************************************************)
(* TRPO / GAIL optimisation core of baselines/gail/trpo_mpi.py.            *)
(*                                                                         *)
(* Three programs are modelled, each as a state machine over its own       *)
(* variables:                                                              *)
(*   - TRPO.learn (and TRPO.save / TRPO.load), all workers in lockstep     *)
(*     (every decision of learn is taken on an allmean / allgather result, *)
(*     and the collectives are blocking barriers);                         *)
(*   - traj_segment_generator, one step of its loop per action;            *)
(*   - add_vtarg_and_adv, a pure function applied to a segment.            *)
(* Spec is learn with the default batch sizes, SpecBatch learn with other  *)
(* horizons and d_step, SpecDesync learn entered with divergent workers,   *)
(* SpecGen the generator, SpecGae add_vtarg_and_adv on any segment and     *)
(* SpecGenGae the generator with add_vtarg_and_adv applied to its yields.  *)
(* SpecUse is learn of one worker drawing its segments from the generator. *)
(*                                                                         *)
(* Numbers.  Floating point values are modelled by exact fixed point       *)
(* integers.  Policy parameters (theta, thbefore, thnew) and the line      *)
(* search stepsize are counted in units of 1/1024, so that the ten scales  *)
(* 1, 1/2, ..., 1/512 and every trial point thbefore + fullstep * stepsize *)
(* are exact; fullstep and stepdir are whole numbers.  KL values and shs   *)
(* are counted in units of max_kl / 2.  Advantages are counted in units of *)
(* 1 / GaeScale.                                                           *)
(***************************************************************************)
EXTENDS Integers, Sequences, FiniteSets, TLC

(***************************************************************************)
(* Bounds of the model.                                                    *)
(***************************************************************************)
\* the largest positive termination budget tried
MaxBudget == 1
\* segments drawn by learn before the model stops
MaxSamples == 2
\* largest horizon of traj_segment_generator
MaxH == 3
\* segments taken from one generator
MaxSegs == 3
\* longest segment given to add_vtarg_and_adv
MaxLen == 3
\* largest d_step tried
MaxDStep == 3

(***************************************************************************)
(* Program constants.                                                      *)
(***************************************************************************)
\* stepsize = 1.0, in units of 1/1024
StepsizeInit == 1024
\* for _ in range(10)
LineSearchTries == 10
\* iters_so_far % 20
CheckPeriod == 20
\* max_kl, in units of max_kl / 2
max_kl == 2

\* vf_iters (default)
vf_iters == 3
\* timesteps_per_batch (default)
timesteps_per_batch == 1024
\* batch_size of the value refit
VfBatchSize == 128
\* d_step (default)
d_step_default == 1

\* dimension of the flat policy parameter vector
Dim == 2

VARIABLES
  \* ---- TRPO object / learn configuration (self.*)
  nworkers, using_gail, pretrained_weight,
  max_iters, max_timesteps, max_episodes, g_step, d_step,
  \* ---- learn: control
  pc, exc, op,
  iters_so_far, episodes_so_far, timesteps_so_far, gpass,
  \* ---- learn: per-worker parameters
  theta, vfparams, th_init,
  \* ---- learn: locals of the policy update
  mean_losses, surrbefore, fullstep, stepsize, thbefore, thnew, ls_i,
  seg_ep_lens,
  \* ---- learn: observation of the run (what was called, what was decided)
  calls, coll, tried, ls_verdicts, grad_zero, iter_zero, th_pass, nsampled,
  check_done,
  \* ---- learn: per worker, the collective calls it issued and the branch
  \* decisions it took since the last segment was drawn
  trace,
  \* ---- learn: the old policy's flat parameters per worker, and whether each
  \* worker's standardized advantage batch is finite
  oldtheta, atarg_fin,
  \* ---- learn: for each local that refers to per-step arrays of a segment,
  \* the number of the segment it was bound to (0: None); and the reads made
  \* of such arrays since the last segment was drawn
  refs, reads,
  \* ---- traj_segment_generator: arguments and position
  horizon, gail, gen_pc,
  \* ---- traj_segment_generator: locals
  step, action, new, observation, vpred, prevac,
  cur_ep_ret, cur_ep_len, cur_ep_true_ret, ep_true_rets, ep_rets, ep_lens,
  observations, true_rews, rews, vpreds, news, actions, prev_actions,
  \* ---- the dict handed out by the last yield (its arrays are the buffers above)
  seg,
  \* ---- the collaborators: what the environment and the policy were asked
  envsteps, nobs, queries, hist, nyield, emitted,
  \* ---- add_vtarg_and_adv: arguments (gamma = gamma2 / 2, lam = lam2 / 2) and results
  gamma2, lam2, adv, tdlamret, gae_in

cfgvars == <<nworkers, using_gail, pretrained_weight, max_iters, max_timesteps,
             max_episodes, g_step, d_step>>
ctlvars == <<pc, exc, op, iters_so_far, episodes_so_far, timesteps_so_far, gpass>>
parvars == <<theta, vfparams, th_init>>
lsvars == <<mean_losses, surrbefore, fullstep, stepsize, thbefore, thnew, ls_i>>
obsvars == <<calls, coll, tried, ls_verdicts, grad_zero, iter_zero, th_pass,
             nsampled, check_done, trace>>
passvars == <<oldtheta, atarg_fin>>
usevars == <<refs, reads>>
learnvars == <<cfgvars, ctlvars, parvars, lsvars, seg_ep_lens, obsvars, passvars, usevars>>

genargs == <<horizon, gail>>
genlocals == <<step, action, new, observation, vpred, prevac,
               cur_ep_ret, cur_ep_len, cur_ep_true_ret, ep_true_rets, ep_rets, ep_lens>>
genbuffers == <<observations, true_rews, rews, vpreds, news, actions, prev_actions>>
genworld == <<envsteps, nobs, queries, hist, nyield, emitted>>
gaevars == <<gamma2, lam2, adv, tdlamret, gae_in>>
genvars == <<genargs, gen_pc, genlocals, genbuffers, seg, genworld, gaevars>>

vars == <<learnvars, genvars>>

(***************************************************************************)
(* Helpers: vectors, numpy                                                 *)
(***************************************************************************)
Abs(x) == IF x < 0 THEN -x ELSE x

Workers == 1..nworkers

ZeroVec == [i \in 1..Dim |-> 0]

VecAdd(a, b) == [i \in 1..Dim |-> a[i] + b[i]]

VecScale(a, k) == [i \in 1..Dim |-> a[i] * k]

VecDiv(a, k) == [i \in 1..Dim |-> a[i] \div k]

RECURSIVE SumTo(_, _)
SumTo(f, n) == IF n = 0 THEN 0 ELSE f[n] + SumTo(f, n - 1)

\* ndarray.sum()
VecSum(a) == SumTo(a, Len(a))

Dot(a, b) == SumTo([i \in 1..Dim |-> a[i] * b[i]], Dim)

\* np.allclose(a, b) on scalars: |a - b| <= atol + rtol * |b|, atol = 1e-8,
\* rtol = 1e-5.  For a and b counted in units of 1/1024 this is
\* |a - b| * 10^8 <= 1024 + 1000 * |b|, and |a - b| is a whole number.
AllClose(a, b) == Abs(a - b) <= (1024 + 1000 * Abs(b)) \div 100000000

\* floor of the square root
ISqrt(n) == CHOOSE r \in 0..n : r * r <= n /\ (r + 1) * (r + 1) > n

\* not (np.isfinite(x).all()) results are kept as this one value
NaNLoss == [fin |-> FALSE, surr |-> 0, kl |-> 0]

(***************************************************************************)
(* Values returned by the collaborators (policy graph, environment, CG,    *)
(* MpiAdam), each drawn from a small set.                                  *)
(***************************************************************************)
BudgetVals == {-1, 0, MaxBudget}

\* g_step
GStepVals == {1, 2}

\* one worker's flat gradient (compute_lossandgrad)
LocalGrads == {<<0, 0>>, <<2, 0>>, <<-2, 0>>, <<0, 2>>}

\* one worker's loss tuple: [optimgain, meankl, ...]; fin is np.isfinite of
\* every entry
LocalLosses == {NaNLoss,
                [fin |-> TRUE, surr |-> 0, kl |-> 2],
                [fin |-> TRUE, surr |-> 0, kl |-> 4],
                [fin |-> TRUE, surr |-> -2, kl |-> 2]}

\* one worker's optimgain before the update
LocalSurrBefore == {0}

\* conjugate_gradient's result
StepDirs == {[fin |-> TRUE, v |-> <<2, 4>>], [fin |-> FALSE, v |-> <<2, 4>>]}

\* fisher_vector_product(stepdir)
FvpVals == {<<8, 0>>, <<-8, 0>>}

\* episodes completed in one worker's segment: seg["ep_lens"]
EpLensVals == {<<>>, <<2>>}

\* change of the value parameters by one refit (MpiAdam on averaged gradients)
VfSteps == {1}

(***************************************************************************)
(* allmean (lines 260-265): Allreduce with MPI.SUM, then / nworkers        *)
(***************************************************************************)
allmean(arr) == SumTo(arr, nworkers) \div nworkers

allmeanVec(arr) == [i \in 1..Dim |-> allmean([w \in Workers |-> arr[w][i]])]

allmeanLosses(arr) ==
  IF \E w \in Workers : ~arr[w].fin
  THEN NaNLoss
  ELSE [fin |-> TRUE,
        surr |-> allmean([w \in Workers |-> arr[w].surr]),
        kl |-> allmean([w \in Workers |-> arr[w].kl])]

\* what worker w holds after Allreduce and the division (lines 262-264)
OwnValue(arr, w) == arr[w]
Allreduce(arr, w) == SumTo(arr, nworkers) \div nworkers

\* the averaged gradient and losses as worker w holds them
GradAt(lg, w) == [i \in 1..Dim |-> Allreduce([v \in Workers |-> lg[v][i]], w)]

LossesAt(ll, w) ==
  IF \E v \in Workers : ~ll[v].fin
  THEN NaNLoss
  ELSE [fin |-> TRUE,
        surr |-> Allreduce([v \in Workers |-> ll[v].surr], w),
        kl |-> Allreduce([v \in Workers |-> ll[v].kl], w)]

\* every worker's trace extended by its own entries
Traced(entries) == [w \in Workers |-> trace[w] \o entries[w]]

TracedAll(entries) == [w \in Workers |-> trace[w] \o entries]

(***************************************************************************)
(* learn: decisions                                                        *)
(***************************************************************************)
\* line 326: sum([max_iters > 0, max_timesteps > 0, max_episodes > 0]) == 1
BudgetAtLeastOne(mi, mt, me) == mi > 0 \/ mt > 0 \/ me > 0
Positive(x) == IF x > 0 THEN 1 ELSE 0
BudgetOk(mi, mt, me) == Positive(mi) + Positive(mt) + Positive(me) = 1

\* lines 346-351: the truth value of a number is "not zero"
BudgetReached ==
  IF max_timesteps # 0 /\ timesteps_so_far >= max_timesteps THEN TRUE
  ELSE IF max_episodes # 0 /\ episodes_so_far >= max_episodes THEN TRUE
  ELSE max_iters # 0 /\ iters_so_far >= max_iters

\* line 399: np.allclose(grad, 0)
GradNeverZero(g) == FALSE
GradIsZero(g) == \A i \in 1..Dim : AllClose(g[i], 0)

\* lines 423-431: the if / elif chain of one line search attempt
LsAcceptNoKl(losses, before) ==
  IF ~losses.fin THEN FALSE
  ELSE IF losses.surr - before < 0 THEN FALSE
  ELSE TRUE
LsAccept(losses, before) ==
  IF ~losses.fin THEN FALSE
  ELSE IF losses.kl * 2 > max_kl * 3 THEN FALSE
  ELSE IF losses.surr - before < 0 THEN FALSE
  ELSE TRUE

\* line 417: thnew = thbefore + fullstep * stepsize
TrialPoint(thb, fs, sz) == VecAdd(thb, VecScale(fs, sz))

\* line 432: stepsize *= .5
KeepStepsize(sz) == sz
HalveStepsize(sz) == sz \div 2

\* line 435: what set_from_flat is given when every attempt was rejected
KeepTrial(thb, thn) == thn
RestorePoint(thb, thn) == thb

\* line 383: (atarg - atarg.mean()) / atarg.std() per worker: finite, or NaN
\* on a worker whose advantages are all equal, as they are when H = 1
AtargFinVals(h) ==
  IF h = 1 THEN {[w \in Workers |-> FALSE]}
  ELSE {[w \in Workers |-> TRUE], [w \in Workers |-> w # nworkers]}

\* a NaN advantage on one worker makes that worker's losses and gradient
\* NaN, and so their allmean on every worker
AtargNaN == \E w \in Workers : ~atarg_fin[w]

\* lines 241-243: assign_old_eq_new
KeepOld(oldv, newv) == oldv
AssignOldEqNew(oldv, newv) == newv

\* the old policy's parameters as its own initializer left them
OldInit == [i \in 1..Dim |-> -1]

\* line 405: np.isfinite(stepdir).all()
StepdirTakenFinite(sd) == TRUE
StepdirFinite(sd) == sd.fin

\* lines 406-410: shs, lagrange_multiplier, fullstep
Shs(stepdir, fvp) == Dot(stepdir, fvp) \div 2
LagrangeMultiplier(shs) == ISqrt(Abs(shs) \div max_kl)
FullStep(stepdir, fvp) == VecDiv(stepdir, LagrangeMultiplier(Shs(stepdir, fvp)))

\* line 438: one worker's entry of the allgather
ParamSums(w) == <<VecSum(thnew[w]), vfparams[w]>>

\* line 439: all(np.allclose(ps, paramsums[0]) for ps in paramsums[1:])
ParamSumsAgree ==
  \A w \in Workers : AllClose(ParamSums(w)[1], ParamSums(1)[1])
                     /\ AllClose(ParamSums(w)[2], ParamSums(1)[2])

\* line 436
CheckDue == nworkers > 1 /\ iters_so_far % CheckPeriod = 0

\* the acceptance rule as the specification words it: all losses finite, mean
\* KL <= 1.5 * max_kl, surrogate improvement >= 0
MeetsAcceptance(losses, before) ==
  losses.fin /\ 2 * losses.kl <= 3 * max_kl /\ losses.surr - before >= 0

\* dataset.iterbatches(..., include_final_partial_batch=False, batch_size=b)
\* over n rows
NumBatchesWithPartial(n, b) == (n + b - 1) \div b
NumBatches(n, b) == n \div b

\* the sizes of the batches iterbatches yields, in order
iterbatches(n, b) == [k \in 1..NumBatches(n, b) |-> b]

RECURSIVE Repeat(_, _)
Repeat(seq, k) == IF k = 0 THEN <<>> ELSE Repeat(seq, k - 1) \o seq

RECURSIVE FlattenTo(_, _)
FlattenTo(lists, n) == IF n = 0 THEN <<>> ELSE FlattenTo(lists, n - 1) \o lists[n]

\* flatten_lists (lines 509-516)
flatten_lists(lists) == FlattenTo(lists, Len(lists))

NoCalls == [set_from_flat |-> 0, conjugate_gradient |-> 0, fvp |-> 0, compute_losses |-> 0,
            vfupdate |-> 0, stepdir_nonfinite |-> 0, vf_sweeps |-> 0, vf_batches |-> <<>>,
            get_next_batch |-> 0, d_update |-> 0, d_batches |-> <<>>]
NoColl == [allmean |-> 0, allgather |-> 0]

\* lines 371-375: vpredbefore = None, observation = None, action = None, seg = None
NoRefs == [seg |-> 0, observation |-> 0, action |-> 0, vpredbefore |-> 0]

\* lines 378-382: seg, observation, action and vpredbefore are assigned in
\* every pass
BindOnce(old, k) == IF old = 0 THEN k ELSE old
Rebind(old, k) == k

\* a read of per-step arrays through the local `of`, made for the purpose
\* `by`: it is current if no segment was requested since the local was bound
Read(by, of) == [by |-> by, of |-> of, current |-> refs[of] = nsampled]

(***************************************************************************)
(* Initial state: the TRPO object as __init__ leaves it.  th_init is       *)
(* broadcast from rank 0 and set on every worker (lines 269-271), the      *)
(* value optimizer is synced (line 275).                                   *)
(***************************************************************************)
InitConfig ==
  /\ nworkers \in {1, 2}
  /\ using_gail \in BOOLEAN
  /\ pretrained_weight \in {"None", "weights"}
  /\ max_iters \in BudgetVals
  /\ max_timesteps \in BudgetVals
  /\ max_episodes \in BudgetVals
  /\ g_step \in GStepVals

\* learn hands timesteps_per_batch and using_gail to the generator (lines
\* 313-317); the defaults of timesteps_per_batch and d_step
DefaultBatch ==
  /\ horizon = timesteps_per_batch /\ gail = using_gail /\ d_step = d_step_default

InitRun ==
  /\ pc = "init" /\ exc = "none" /\ op = "none"
  /\ iters_so_far = 0 /\ episodes_so_far = 0 /\ timesteps_so_far = 0 /\ gpass = 0
  /\ mean_losses = <<>> /\ surrbefore = 0 /\ fullstep = ZeroVec
  /\ stepsize = StepsizeInit /\ thbefore = <<>> /\ thnew = <<>> /\ ls_i = 0
  /\ seg_ep_lens = <<>>
  /\ calls = NoCalls /\ coll = NoColl /\ tried = <<>> /\ ls_verdicts = <<>>
  /\ grad_zero = FALSE /\ iter_zero = FALSE /\ nsampled = 0 /\ check_done = FALSE
  /\ trace = [w \in Workers |-> <<>>]
  /\ refs = NoRefs /\ reads = {}
  /\ oldtheta = [w \in Workers |-> OldInit]
  /\ atarg_fin = [w \in Workers |-> TRUE]

\* the generator's frame before traj_segment_generator is entered
GenLocalsIdle ==
  /\ step = 0 /\ action = 0 /\ new = 1 /\ observation = 0 /\ vpred = 0 /\ prevac = 0
  /\ cur_ep_ret = 0 /\ cur_ep_len = 0 /\ cur_ep_true_ret = 0
  /\ ep_true_rets = <<>> /\ ep_rets = <<>> /\ ep_lens = <<>>

NoSeg == [nextvpred |-> 0, ep_rets |-> <<>>, ep_lens |-> <<>>, ep_true_rets |-> <<>>]

GenWorldIdle ==
  /\ envsteps = 0 /\ nobs = 0 /\ queries = <<>> /\ hist = <<>> /\ nyield = 0
  /\ emitted = [ep_rets |-> <<>>, ep_lens |-> <<>>, ep_true_rets |-> <<>>]

GaeIdle ==
  /\ gamma2 = 2 /\ lam2 = 2 /\ adv = <<>> /\ tdlamret = <<>> /\ gae_in = <<>>

\* no generator has been created (learn creates it at line 340)
GenIdle ==
  /\ gen_pc = "none"
  /\ GenLocalsIdle
  /\ observations = <<>> /\ true_rews = <<>> /\ rews = <<>> /\ vpreds = <<>>
  /\ news = <<>> /\ actions = <<>> /\ prev_actions = <<>>
  /\ seg = NoSeg
  /\ GenWorldIdle
  /\ GaeIdle

InitLearn ==
  /\ InitConfig
  /\ th_init = ZeroVec
  /\ theta = [w \in Workers |-> th_init]
  /\ vfparams = [w \in Workers |-> 0]
  /\ th_pass = theta
  /\ InitRun
  /\ DefaultBatch
  /\ GenIdle

Raise(e) == pc' = "raised" /\ exc' = e

(***************************************************************************)
(* TRPO.save, TRPO.load (lines 501-506)                                    *)
(***************************************************************************)
Save ==
  /\ pc = "init"
  /\ op' = "save"
  /\ Raise("NotImplementedError")
  /\ UNCHANGED <<genvars, cfgvars, passvars, usevars, iters_so_far, episodes_so_far, timesteps_so_far, gpass,
                 parvars, lsvars, seg_ep_lens, obsvars>>

Load ==
  /\ pc = "init"
  /\ op' = "load"
  /\ Raise("NotImplementedError")
  /\ UNCHANGED <<genvars, cfgvars, passvars, usevars, iters_so_far, episodes_so_far, timesteps_so_far, gpass,
                 parvars, lsvars, seg_ep_lens, obsvars>>

(***************************************************************************)
(* learn, lines 313-341: the generator object is created (no code of it    *)
(* runs before its first __next__), the counters are zeroed, the budget    *)
(* options are checked, pretrained weights are refused in GAIL mode.       *)
(***************************************************************************)
LearnStart ==
  /\ pc = "init"
  /\ op' = "learn"
  /\ iters_so_far' = 0 /\ episodes_so_far' = 0 /\ timesteps_so_far' = 0
  /\ IF ~BudgetOk(max_iters, max_timesteps, max_episodes)
     THEN Raise("AssertionError")
     ELSE IF using_gail /\ pretrained_weight # "None"
          THEN Raise("NotImplementedError")
          ELSE pc' = "top" /\ exc' = exc
  /\ UNCHANGED <<genvars, cfgvars, passvars, usevars, gpass, parvars, lsvars, seg_ep_lens, obsvars>>

(***************************************************************************)
(* learn, lines 343-375: top of the outer loop                             *)
(***************************************************************************)
LoopTop ==
  /\ pc = "top"
  /\ IF BudgetReached
     THEN /\ pc' = "returned"
          /\ UNCHANGED <<mean_losses, gpass, iter_zero, refs>>
     ELSE /\ pc' = "sample"
          /\ mean_losses' = <<>>
          /\ gpass' = 0
          /\ iter_zero' = FALSE
          /\ refs' = NoRefs
  /\ trace' = TracedAll(<<<<"break", BudgetReached>>>>)
  /\ UNCHANGED <<genvars, cfgvars, passvars, reads, exc, op, iters_so_far, episodes_so_far, timesteps_so_far,
                 parvars, surrbefore, fullstep, stepsize, thbefore, thnew, ls_i,
                 seg_ep_lens, calls, coll, tried, ls_verdicts, grad_zero, th_pass,
                 nsampled, check_done>>

(***************************************************************************)
(* learn, lines 377-393: one segment per worker is drawn and prepared; the *)
(* advantages are standardized (the division by a zero standard deviation  *)
(* gives NaN and raises nothing); the policy is copied to the old policy   *)
(***************************************************************************)
TakeSegment(lens, fin) ==
  /\ seg_ep_lens' = lens
  /\ nsampled' = nsampled + 1
  /\ refs' = [x \in DOMAIN refs |-> Rebind(refs[x], nsampled')]
  /\ reads' = {[by |-> "advantage", of |-> "seg", current |-> refs'.seg = nsampled']}
  /\ calls' = NoCalls /\ coll' = NoColl /\ tried' = <<>> /\ ls_verdicts' = <<>>
  /\ grad_zero' = FALSE /\ check_done' = FALSE
  /\ trace' = [w \in Workers |-> <<>>]
  /\ th_pass' = theta
  /\ atarg_fin' = fin
  /\ oldtheta' = [w \in Workers |-> AssignOldEqNew(oldtheta[w], theta[w])]
  /\ pc' = "grad"
  /\ UNCHANGED <<cfgvars, exc, op, iters_so_far, episodes_so_far, timesteps_so_far,
                 gpass, parvars, lsvars, iter_zero>>

\* the generator is not modelled: any episode lists, any advantages
Sample ==
  /\ pc = "sample" /\ nsampled < MaxSamples
  /\ \E lens \in [Workers -> EpLensVals], fin \in AtargFinVals(horizon) :
       TakeSegment(lens, fin)
  /\ UNCHANGED genvars

(***************************************************************************)
(* learn, lines 395-401: losses and gradient, averaged; the zero test.     *)
(* np.allclose(grad, 0) is False for a NaN gradient.                       *)
(***************************************************************************)
ComputeGrad ==
  /\ pc = "grad"
  /\ \E lg \in [Workers -> LocalGrads], lb \in [Workers -> LocalSurrBefore] :
       LET grad == allmeanVec(lg)
       IN /\ trace' = Traced([w \in Workers |->
                      <<<<"allmean", 2>>,
                        <<"zero", ~AtargNaN /\ GradIsZero(GradAt(lg, w))>>>>])
          /\ IF AtargNaN
               THEN /\ pc' = "cg"
                    /\ UNCHANGED <<surrbefore, grad_zero, iter_zero>>
               ELSE /\ surrbefore' = allmean(lb)
                    /\ grad_zero' = (grad = ZeroVec)
                    /\ iter_zero' = (iter_zero \/ grad = ZeroVec)
                    /\ pc' = IF GradIsZero(grad) THEN "vf" ELSE "cg"
  /\ coll' = [coll EXCEPT !.allmean = @ + 2]
  /\ reads' = reads \cup {Read("gradient", "seg")}
  /\ UNCHANGED <<genvars, cfgvars, passvars, refs, exc, op, iters_so_far, episodes_so_far, timesteps_so_far,
                 gpass, parvars, mean_losses, fullstep, stepsize, thbefore, thnew, ls_i,
                 seg_ep_lens, calls, tried, ls_verdicts, th_pass, nsampled, check_done>>

(***************************************************************************)
(* learn, lines 402-415: conjugate gradient, its finiteness assertion,     *)
(* the step scaling, and the start of the line search                      *)
(***************************************************************************)
NaturalGradient ==
  /\ pc = "cg"
  /\ \E sd \in StepDirs, fv \in FvpVals :
       /\ AtargNaN => ~sd.fin
       /\ trace' = TracedAll(IF StepdirFinite(sd)
                               THEN <<<<"finite", TRUE>>, <<"allmean", 1>>>>
                               ELSE <<<<"finite", FALSE>>>>)
       /\ IF ~StepdirFinite(sd)
          THEN /\ Raise("AssertionError")
               /\ calls' = [calls EXCEPT !.conjugate_gradient = @ + 1,
                                         !.stepdir_nonfinite = @ + 1]
               /\ UNCHANGED <<fullstep, stepsize, thbefore, thnew, ls_i, coll>>
          ELSE /\ fullstep' = FullStep(sd.v, fv)
               /\ stepsize' = StepsizeInit
               /\ thbefore' = theta
               /\ thnew' = <<>>
               /\ ls_i' = 0
               /\ calls' = [calls EXCEPT !.conjugate_gradient = @ + 1, !.fvp = @ + 1,
                                         !.stepdir_nonfinite = IF sd.fin THEN @ ELSE @ + 1]
               /\ coll' = [coll EXCEPT !.allmean = @ + 1]
               /\ pc' = "ls" /\ exc' = exc
  /\ reads' = reads \cup {Read("fvp", "seg")}
  /\ UNCHANGED <<genvars, cfgvars, passvars, refs, op, iters_so_far, episodes_so_far, timesteps_so_far,
                 gpass, parvars, mean_losses, surrbefore, seg_ep_lens, tried,
                 ls_verdicts, grad_zero, iter_zero, th_pass, nsampled, check_done>>

(***************************************************************************)
(* learn, lines 416-432: one attempt of the backtracking line search       *)
(***************************************************************************)
LineSearchAttempt ==
  /\ pc = "ls" /\ ls_i < LineSearchTries
  /\ thnew' = [w \in Workers |-> TrialPoint(thbefore[w], fullstep, stepsize)]
  /\ theta' = thnew'
  /\ tried' = Append(tried, stepsize)
  /\ calls' = [calls EXCEPT !.set_from_flat = @ + 1, !.compute_losses = @ + 1]
  /\ coll' = [coll EXCEPT !.allmean = @ + 1]
  /\ \E ll \in [Workers -> LocalLosses] :
       LET losses == allmeanLosses(ll)
       IN /\ mean_losses' = <<losses>>
          /\ trace' = Traced([w \in Workers |->
                      <<<<"allmean", 1>>,
                        <<"accept", LsAccept(LossesAt(ll, w), surrbefore)>>>>])
          /\ ls_verdicts' = Append(ls_verdicts, MeetsAcceptance(losses, surrbefore))
          /\ IF LsAccept(losses, surrbefore)
             THEN /\ pc' = "check"
                  /\ UNCHANGED <<stepsize, ls_i>>
             ELSE /\ stepsize' = HalveStepsize(stepsize)
                  /\ ls_i' = ls_i + 1
                  /\ pc' = pc
  /\ reads' = reads \cup {Read("losses", "seg")}
  /\ UNCHANGED <<genvars, cfgvars, passvars, refs, exc, op, iters_so_far, episodes_so_far, timesteps_so_far,
                 gpass, vfparams, th_init, surrbefore, fullstep, thbefore, seg_ep_lens,
                 grad_zero, iter_zero, th_pass, nsampled, check_done>>

(***************************************************************************)
(* learn, lines 433-435: the else of the for loop, no attempt accepted     *)
(***************************************************************************)
LineSearchExhausted ==
  /\ pc = "ls" /\ ls_i = LineSearchTries
  /\ theta' = [w \in Workers |-> RestorePoint(thbefore[w], thnew[w])]
  /\ calls' = [calls EXCEPT !.set_from_flat = @ + 1]
  /\ pc' = "check"
  /\ UNCHANGED <<genvars, cfgvars, passvars, usevars, exc, op, iters_so_far, episodes_so_far, timesteps_so_far,
                 gpass, vfparams, th_init, lsvars, seg_ep_lens, coll, tried,
                 ls_verdicts, grad_zero, iter_zero, th_pass, nsampled, check_done, trace>>

(***************************************************************************)
(* learn, lines 436-439: the periodic consistency check                    *)
(***************************************************************************)
ConsistencyCheck ==
  /\ pc = "check"
  /\ IF CheckDue
     THEN /\ coll' = [coll EXCEPT !.allgather = @ + 1]
          /\ check_done' = TRUE
          /\ trace' = TracedAll(<<<<"check", TRUE>>, <<"allgather", 1>>,
                                  <<"agree", ParamSumsAgree>>>>)
          /\ IF ParamSumsAgree
             THEN pc' = "vf" /\ exc' = exc
             ELSE Raise("AssertionError")
     ELSE /\ pc' = "vf" /\ exc' = exc
          /\ trace' = TracedAll(<<<<"check", FALSE>>>>)
          /\ UNCHANGED <<coll, check_done>>
  /\ UNCHANGED <<genvars, cfgvars, passvars, usevars, op, iters_so_far, episodes_so_far, timesteps_so_far,
                 gpass, parvars, lsvars, seg_ep_lens, calls, tried, ls_verdicts,
                 grad_zero, iter_zero, th_pass, nsampled>>

(***************************************************************************)
(* learn, lines 441-448: the value function refit, then the next pass of   *)
(* the g_step loop or its end                                              *)
(***************************************************************************)
VfRefit ==
  /\ pc = "vf"
  /\ LET sweep == iterbatches(horizon, VfBatchSize)
         n == vf_iters * Len(sweep)
     IN /\ calls' = [calls EXCEPT !.vfupdate = @ + n, !.vf_sweeps = @ + vf_iters,
                                  !.vf_batches = Repeat(sweep, vf_iters)]
        /\ coll' = [coll EXCEPT !.allmean = @ + n]
        /\ trace' = TracedAll(<<<<"allmean", n>>>>)
        /\ \E d \in VfSteps :
             vfparams' = [w \in Workers |-> IF n = 0 THEN vfparams[w] ELSE vfparams[w] + d]
  /\ IF gpass + 1 < g_step
     THEN gpass' = gpass + 1 /\ pc' = "sample"
     ELSE gpass' = gpass /\ pc' = "report"
  /\ reads' = reads \cup {Read("vf", "seg")}
  /\ UNCHANGED <<genvars, cfgvars, passvars, refs, exc, op, iters_so_far, episodes_so_far, timesteps_so_far,
                 theta, th_init, lsvars, seg_ep_lens, tried, ls_verdicts, grad_zero,
                 iter_zero, th_pass, nsampled, check_done>>

(***************************************************************************)
(* learn, lines 450-453: the losses and the explained variance are         *)
(* reported; zip(self.loss_names, None) raises TypeError                   *)
(***************************************************************************)
Report ==
  /\ pc = "report"
  /\ IF mean_losses = <<>>
     THEN Raise("TypeError") /\ UNCHANGED reads
     ELSE /\ pc' = IF using_gail THEN "disc" ELSE "stats"
          /\ exc' = exc
          /\ reads' = reads \cup {Read("explained_variance", "vpredbefore")}
  /\ UNCHANGED <<genvars, cfgvars, passvars, refs, op, iters_so_far, episodes_so_far, timesteps_so_far,
                 gpass, parvars, lsvars, seg_ep_lens, obsvars>>

(***************************************************************************)
(* learn, lines 455-472: the discriminator update (GAIL): one expert batch *)
(* of the size of the segment is drawn and dropped (line 459), then one    *)
(* per minibatch of len(observation) // d_step rows.  d_step <= horizon in *)
(* every initial state.                                                    *)
(***************************************************************************)
Discriminator ==
  /\ pc = "disc"
  /\ LET batch_size == horizon \div d_step
         batches == iterbatches(horizon, batch_size)
     IN /\ coll' = [coll EXCEPT !.allmean = @ + Len(batches)]
        /\ trace' = TracedAll(<<<<"allmean", Len(batches)>>>>)
        /\ calls' = [calls EXCEPT !.get_next_batch = @ + 1 + Len(batches),
                                  !.d_update = @ + Len(batches),
                                  !.d_batches = [k \in 1..Len(batches) |->
                                                  [policy |-> batches[k],
                                                   expert |-> batches[k]]]]
  /\ pc' = "stats"
  /\ reads' = reads \cup {Read("discriminator", "observation"),
                          Read("discriminator", "action")}
  /\ UNCHANGED <<genvars, cfgvars, passvars, refs, exc, op, iters_so_far, episodes_so_far, timesteps_so_far,
                 gpass, parvars, lsvars, seg_ep_lens, tried, ls_verdicts,
                 grad_zero, iter_zero, th_pass, nsampled, check_done>>

(***************************************************************************)
(* learn, lines 474-499: the episode statistics of the last segment are    *)
(* gathered from all workers and the counters advance                      *)
(***************************************************************************)
Stats ==
  /\ pc = "stats"
  /\ LET lens == flatten_lists(seg_ep_lens)
     IN /\ episodes_so_far' = episodes_so_far + Len(lens)
        /\ timesteps_so_far' = timesteps_so_far + SumTo(lens, Len(lens))
  /\ iters_so_far' = iters_so_far + 1
  /\ coll' = [coll EXCEPT !.allgather = @ + 1]
  /\ trace' = TracedAll(<<<<"allgather", 1>>>>)
  /\ pc' = "top"
  /\ UNCHANGED <<genvars, cfgvars, passvars, usevars, exc, op, gpass, parvars, lsvars, seg_ep_lens, calls, tried,
                 ls_verdicts, grad_zero, iter_zero, th_pass, nsampled, check_done>>

NextLearn ==
  \/ Save \/ Load \/ LearnStart \/ LoopTop \/ Sample \/ ComputeGrad
  \/ NaturalGradient \/ LineSearchAttempt \/ LineSearchExhausted
  \/ ConsistencyCheck \/ VfRefit \/ Report \/ Discriminator \/ Stats

Spec == InitLearn /\ [][NextLearn]_vars

(***************************************************************************)
(* learn with other batch sizes than the defaults: horizons around the     *)
(* value refit's batch size of 128 and small ones, every d_step up to the  *)
(* horizon (and MaxDStep), one iteration budget.                           *)
(***************************************************************************)
HorizonVals == {1, 3, 127, 128, 300}

Min(a, b) == IF a < b THEN a ELSE b

InitBatch ==
  /\ nworkers \in {1, 2}
  /\ using_gail \in BOOLEAN
  /\ pretrained_weight = "None"
  /\ max_iters = MaxBudget /\ max_timesteps = 0 /\ max_episodes = 0
  /\ g_step \in GStepVals
  /\ horizon \in HorizonVals
  /\ d_step \in 1..Min(horizon, MaxDStep)
  /\ gail = using_gail
  /\ th_init = ZeroVec
  /\ theta = [w \in Workers |-> th_init]
  /\ vfparams = [w \in Workers |-> 0]
  /\ th_pass = theta
  /\ InitRun
  /\ GenIdle

SpecBatch == InitBatch /\ [][NextLearn]_vars

(***************************************************************************)
(* The same program entered with deliberately divergent workers: between   *)
(* construction and learn, the parameters of worker 2 (set_from_flat is a  *)
(* public attribute) or its value parameters were changed.                 *)
(***************************************************************************)
DesyncTheta == {<<ZeroVec, ZeroVec>>,
                <<<<1024, 0>>, <<0, 1024>>>>,
                <<ZeroVec, <<1024, 0>>>>}

InitDesync ==
  /\ InitConfig
  /\ nworkers = 2 /\ g_step = 1 /\ pretrained_weight = "None"
  /\ th_init = ZeroVec
  /\ theta \in DesyncTheta
  /\ vfparams \in {<<0, 0>>, <<0, 1>>}
  /\ th_pass = theta
  /\ InitRun
  /\ DefaultBatch
  /\ GenIdle

SpecDesync == InitDesync /\ [][NextLearn]_vars

(***************************************************************************)
(* traj_segment_generator (lines 20-111).  The environment hands out       *)
(* observations numbered in the order it produces them (reset and step     *)
(* both produce one), the policy answers its q-th query with action q and  *)
(* value prediction q, the environment pays EnvReward on its n-th step and *)
(* the reward giver pays GailReward; whether a step ends the episode is    *)
(* the environment's choice.  Buffers are 1-based: slot i of the code is   *)
(* slot i + 1 here.                                                        *)
(***************************************************************************)
EnvReward(n) == n

GailReward(ob, ac) == 100 + 10 * ob + ac

DoneVals == {0, 1}

\* line 84: i = step % horizon
NextBufferIndex(s, h) == (s + 1) % h
BufferIndex(s, h) == s % h

\* line 74: step > 0 and step % horizon == 0
YieldDue(s, h) == s > 0 /\ s % h = 0

\* line 76: "nextvpred": vpred * (1 - new)
FullNextVpred(v, n) == v
NextVpred(v, n) == v * (1 - n)

\* lines 99-101: cur_ep_ret += rew, cur_ep_true_ret += true_rew, cur_ep_len += 1
LastOnly(cur, x) == x
Accumulate(cur, x) == cur + x

\* line 78: _, vpred = policy.act(stochastic, observation)
PreYieldVpred(before, after) == before
PostResumeVpred(before, after) == after

\* the dict of lines 75-77: the arrays are the generator's own buffers
Seg == [ob |-> observations, rew |-> rews, vpred |-> vpreds, new |-> news,
        ac |-> actions, prevac |-> prev_actions, nextvpred |-> seg.nextvpred,
        ep_rets |-> seg.ep_rets, ep_lens |-> seg.ep_lens,
        ep_true_rets |-> seg.ep_true_rets]

\* the learn side of a generator specification: a constructed TRPO object
\* on which learn has not been called
LearnIdle ==
  /\ nworkers = 1 /\ using_gail = gail /\ pretrained_weight = "None"
  /\ max_iters = MaxBudget /\ max_timesteps = 0 /\ max_episodes = 0
  /\ g_step = 1 /\ d_step = d_step_default
  /\ th_init = ZeroVec
  /\ theta = [w \in Workers |-> th_init]
  /\ vfparams = [w \in Workers |-> 0]
  /\ th_pass = theta
  /\ InitRun

\* the generator object exists, its body has not started
GenFrame ==
  /\ gen_pc = "created"
  /\ GenLocalsIdle
  /\ observations = <<>> /\ true_rews = <<>> /\ rews = <<>> /\ vpreds = <<>>
  /\ news = <<>> /\ actions = <<>> /\ prev_actions = <<>>
  /\ seg = NoSeg
  /\ GenWorldIdle

GenCreated ==
  /\ horizon \in 1..MaxH
  /\ gail \in BOOLEAN
  /\ GenFrame
  /\ LearnIdle

InitGen == GenCreated /\ GaeIdle

\* lines 44-66, run by the first __next__: env.reset(), zeroed buffers
GenStart ==
  /\ gen_pc = "created"
  /\ step' = 0
  /\ action' = 0
  /\ new' = 1
  /\ observation' = nobs + 1
  /\ nobs' = nobs + 1
  /\ cur_ep_ret' = 0 /\ cur_ep_len' = 0 /\ cur_ep_true_ret' = 0
  /\ ep_true_rets' = <<>> /\ ep_rets' = <<>> /\ ep_lens' = <<>>
  /\ observations' = [i \in 1..horizon |-> observation']
  /\ true_rews' = [i \in 1..horizon |-> 0]
  /\ rews' = [i \in 1..horizon |-> 0]
  /\ vpreds' = [i \in 1..horizon |-> 0]
  /\ news' = [i \in 1..horizon |-> 0]
  /\ actions' = [i \in 1..horizon |-> action']
  /\ prev_actions' = actions'
  /\ gen_pc' = "loop"
  /\ UNCHANGED <<learnvars, genargs, vpred, prevac, seg, envsteps, queries, hist, nyield,
                 emitted, gaevars>>

\* lines 69-77: the policy is queried for the current observation; on a
\* segment boundary the generator yields a new dict (which has no "adv" or
\* "tdlamret" yet) and stays suspended in the yield
GenQuery ==
  /\ gen_pc = "loop"
  /\ prevac' = action
  /\ action' = Len(queries) + 1
  /\ vpred' = Len(queries) + 1
  /\ queries' = Append(queries, [ob |-> observation, vpred |-> vpred', ac |-> action',
                                 at |-> "loop"])
  /\ IF YieldDue(step, horizon)
       THEN /\ seg' = [nextvpred |-> NextVpred(vpred', new), ep_rets |-> ep_rets,
                       ep_lens |-> ep_lens, ep_true_rets |-> ep_true_rets]
            /\ emitted' = [ep_rets |-> emitted.ep_rets \o ep_rets,
                           ep_lens |-> emitted.ep_lens \o ep_lens,
                           ep_true_rets |-> emitted.ep_true_rets \o ep_true_rets]
            /\ nyield' = nyield + 1
            /\ adv' = <<>> /\ tdlamret' = <<>> /\ gae_in' = <<>>
            /\ gen_pc' = "yielded"
       ELSE /\ gen_pc' = "store"
            /\ UNCHANGED <<seg, nyield, emitted, adv, tdlamret, gae_in>>
  /\ UNCHANGED <<learnvars, genargs, step, new, observation, cur_ep_ret, cur_ep_len,
                 cur_ep_true_ret, ep_true_rets, ep_rets, ep_lens, genbuffers, envsteps,
                 nobs, hist, gamma2, lam2>>

\* lines 78-83, run by the next __next__: the value is predicted again and
\* the episode lists are replaced by new empty lists
GenResume ==
  /\ gen_pc = "yielded"
  /\ nyield < MaxSegs
  /\ vpred' = PostResumeVpred(vpred, Len(queries) + 1)
  /\ queries' = Append(queries, [ob |-> observation, vpred |-> Len(queries) + 1,
                                 ac |-> Len(queries) + 1, at |-> "resume"])
  /\ ep_rets' = <<>> /\ ep_true_rets' = <<>> /\ ep_lens' = <<>>
  /\ gen_pc' = "store"
  /\ UNCHANGED <<learnvars, genargs, step, action, new, observation, prevac, cur_ep_ret,
                 cur_ep_len, cur_ep_true_ret, genbuffers, seg, envsteps, nobs, hist,
                 nyield, emitted, gaevars>>

\* lines 84-111: the transition is stored in slot step % horizon, the
\* environment is stepped, a finished episode is recorded and the
\* environment reset
GenStep ==
  /\ gen_pc = "store"
  /\ \E done \in DoneVals :
       LET i == BufferIndex(step, horizon) + 1
           true_rew == EnvReward(envsteps + 1)
           rew == IF gail THEN GailReward(observation, action) ELSE true_rew
       IN /\ observations' = [observations EXCEPT ![i] = observation]
          /\ vpreds' = [vpreds EXCEPT ![i] = vpred]
          /\ news' = [news EXCEPT ![i] = new]
          /\ actions' = [actions EXCEPT ![i] = action]
          /\ prev_actions' = [prev_actions EXCEPT ![i] = prevac]
          /\ rews' = [rews EXCEPT ![i] = rew]
          /\ true_rews' = [true_rews EXCEPT ![i] = true_rew]
          /\ envsteps' = envsteps + 1
          /\ new' = done
          /\ hist' = Append(hist, [ob |-> observation, ac |-> action, prevac |-> prevac,
                                   vpred |-> vpred, new |-> new, rew |-> rew,
                                   true_rew |-> true_rew, done |-> done,
                                   next_ob |-> nobs + 1])
          /\ IF done = 1
               THEN /\ ep_rets' = Append(ep_rets, Accumulate(cur_ep_ret, rew))
                    /\ ep_true_rets' = Append(ep_true_rets,
                                              Accumulate(cur_ep_true_ret, true_rew))
                    /\ ep_lens' = Append(ep_lens, Accumulate(cur_ep_len, 1))
                    /\ cur_ep_ret' = 0 /\ cur_ep_true_ret' = 0 /\ cur_ep_len' = 0
                    /\ observation' = nobs + 2
                    /\ nobs' = nobs + 2
               ELSE /\ cur_ep_ret' = Accumulate(cur_ep_ret, rew)
                    /\ cur_ep_true_ret' = Accumulate(cur_ep_true_ret, true_rew)
                    /\ cur_ep_len' = Accumulate(cur_ep_len, 1)
                    /\ observation' = nobs + 1
                    /\ nobs' = nobs + 1
                    /\ UNCHANGED <<ep_rets, ep_true_rets, ep_lens>>
  /\ step' = step + 1
  /\ gen_pc' = "loop"
  /\ UNCHANGED <<learnvars, genargs, action, vpred, prevac, seg, queries, nyield, emitted,
                 gaevars>>

NextGen == GenStart \/ GenQuery \/ GenResume \/ GenStep

SpecGen == InitGen /\ [][NextGen]_vars

(***************************************************************************)
(* add_vtarg_and_adv (lines 114-133), in exact arithmetic.  gamma is       *)
(* gamma2 / 2 and lam is lam2 / 2; adv and tdlamret are held multiplied by *)
(* GaeScale(rew_len) = 4 ^ rew_len, which makes every division below       *)
(* exact.  Every slot of the np.empty array is written before it is read.  *)
(***************************************************************************)
RECURSIVE Pow2(_)
Pow2(n) == IF n = 0 THEN 1 ELSE 2 * Pow2(n - 1)

GaeScale(rew_len) == Pow2(2 * rew_len)

\* line 129: nonterminal = 1 - new[step + 1]
NonterminalOwn(new_, stp) == 1 - new_[stp]
Nonterminal(new_, stp) == 1 - new_[stp + 1]

\* line 130, times the scale
Delta(rew, vpred_, nonterminal, stp, g2, scale) ==
  rew[stp] * scale + (g2 * vpred_[stp + 1] * nonterminal * scale) \div 2
    - vpred_[stp] * scale

\* lines 128-131: for step in reversed(range(rew_len))
RECURSIVE GaeLoop(_, _, _, _, _)
GaeLoop(in, stp, lastgaelam, gaelam, scale) ==
  IF stp = 0 THEN gaelam
  ELSE LET nonterminal == Nonterminal(in.new, stp)
           delta == Delta(in.rew, in.vpred, nonterminal, stp, in.gamma2, scale)
           cur == delta + (in.gamma2 * in.lam2 * nonterminal * lastgaelam) \div 4
       IN GaeLoop(in, stp - 1, cur, [gaelam EXCEPT ![stp] = cur], scale)

\* lines 122-131: seg["adv"]
Gaelam(s, g2, l2) ==
  LET new_ == Append(s.new, 0)
      vpred_ == Append(s.vpred, s.nextvpred)
      rew_len == Len(s.rew)
  IN GaeLoop([new |-> new_, vpred |-> vpred_, rew |-> s.rew, gamma2 |-> g2, lam2 |-> l2],
             rew_len, 0, [t \in 1..rew_len |-> 0], GaeScale(rew_len))

\* line 132: seg["tdlamret"] = seg["adv"] + seg["vpred"]
TdLamRet(s, gaelam) ==
  [t \in 1..Len(gaelam) |-> gaelam[t] + s.vpred[t] * GaeScale(Len(s.rew))]

RewVals == {0, 1}

VpredVals == {0, 2}

NewVals == {0, 1}

Gamma2Vals == {1, 2}

Lam2Vals == {0, 1, 2}

\* a segment of any content is about to be given to add_vtarg_and_adv
InitGae ==
  /\ horizon \in 1..MaxLen
  /\ gail = FALSE
  /\ gen_pc = "yielded"
  /\ GenLocalsIdle
  /\ rews \in [1..horizon -> RewVals]
  /\ vpreds \in [1..horizon -> VpredVals]
  /\ news \in [1..horizon -> NewVals]
  /\ seg \in [nextvpred : VpredVals, ep_rets : {<<>>}, ep_lens : {<<>>},
              ep_true_rets : {<<>>}]
  /\ observations = [i \in 1..horizon |-> 0]
  /\ true_rews = rews
  /\ actions = [i \in 1..horizon |-> 0]
  /\ prev_actions = actions
  /\ GenWorldIdle
  /\ gamma2 \in Gamma2Vals
  /\ lam2 \in Lam2Vals
  /\ adv = <<>> /\ tdlamret = <<>> /\ gae_in = <<>>
  /\ LearnIdle

\* add_vtarg_and_adv(seg, gamma, lam) on the segment last yielded
AddVtargAndAdv ==
  /\ gen_pc = "yielded"
  /\ adv = <<>>
  /\ gae_in' = [rew |-> rews, vpred |-> vpreds, new |-> news, nextvpred |-> seg.nextvpred]
  /\ adv' = Gaelam(Seg, gamma2, lam2)
  /\ tdlamret' = TdLamRet(Seg, adv')
  /\ UNCHANGED <<learnvars, genargs, gen_pc, genlocals, genbuffers, seg, genworld,
                 gamma2, lam2>>

NextGae == AddVtargAndAdv

SpecGae == InitGae /\ [][NextGae]_vars

(***************************************************************************)
(* The generator with its consumer: add_vtarg_and_adv is applied to the    *)
(* segment last yielded (learn, lines 378-379).                            *)
(***************************************************************************)
InitGenGae ==
  /\ GenCreated
  /\ gamma2 \in Gamma2Vals
  /\ lam2 \in Lam2Vals
  /\ adv = <<>> /\ tdlamret = <<>> /\ gae_in = <<>>

NextGenGae == GenStart \/ GenQuery \/ GenResume \/ GenStep \/ AddVtargAndAdv

SpecGenGae == InitGenGae /\ [][NextGenGae]_vars

(***************************************************************************)
(* learn with its generator, one worker.  The generator runs only while    *)
(* learn is inside seg_gen.__next__() (line 378), from the request to the  *)
(* next yield; learn then applies add_vtarg_and_adv (line 379) and         *)
(* standardizes the advantages (line 383), which are finite unless they    *)
(* are all equal.                                                          *)
(***************************************************************************)
UseHorizons == {1, 2}

UseBudgets == {<<MaxBudget, 0, 0>>, <<0, MaxBudget, 0>>, <<0, 0, MaxBudget>>}

InitUse ==
  /\ nworkers = 1
  /\ using_gail \in BOOLEAN
  /\ pretrained_weight = "None"
  /\ \E b \in UseBudgets : max_iters = b[1] /\ max_timesteps = b[2] /\ max_episodes = b[3]
  /\ g_step \in GStepVals
  /\ d_step = d_step_default
  /\ horizon \in UseHorizons
  /\ gail = using_gail
  /\ th_init = ZeroVec
  /\ theta = [w \in Workers |-> th_init]
  /\ vfparams = [w \in Workers |-> 0]
  /\ th_pass = theta
  /\ InitRun
  /\ GenFrame
  /\ GaeIdle

\* learn is inside __next__ and the generator has not yielded yet
Requested == pc = "sample" /\ nyield = nsampled /\ nsampled < MaxSamples

NextStart == Requested /\ GenStart

NextQuery == Requested /\ GenQuery

NextResume == Requested /\ GenResume

NextStep == Requested /\ GenStep

\* atarg.std() is zero exactly when all advantages are equal
AtargFinite(a) == \E t \in 1..Len(a), u \in 1..Len(a) : a[t] # a[u]

\* lines 378-393 once __next__ has returned the new segment
SampleYielded ==
  /\ pc = "sample" /\ gen_pc = "yielded" /\ nyield = nsampled + 1
  /\ gae_in' = [rew |-> rews, vpred |-> vpreds, new |-> news, nextvpred |-> seg.nextvpred]
  /\ adv' = Gaelam(Seg, gamma2, lam2)
  /\ tdlamret' = TdLamRet(Seg, adv')
  /\ TakeSegment([w \in Workers |-> Seg.ep_lens], [w \in Workers |-> AtargFinite(adv')])
  /\ UNCHANGED <<genargs, gen_pc, genlocals, genbuffers, seg, genworld, gamma2, lam2>>

NextUse ==
  \/ Save \/ Load \/ LearnStart \/ LoopTop
  \/ NextStart \/ NextQuery \/ NextResume \/ NextStep \/ SampleYielded
  \/ ComputeGrad \/ NaturalGradient \/ LineSearchAttempt \/ LineSearchExhausted
  \/ ConsistencyCheck \/ VfRefit \/ Report \/ Discriminator \/ Stats

SpecUse == InitUse /\ [][NextUse]_vars

(***************************************************************************)
(* Properties of learn                                                     *)
(***************************************************************************)
\* a line search was run in the current pass and is over
LsOver == Len(tried) > 0 /\ pc # "ls"

\* no attempt of the current pass met the acceptance rule
NoneAccepted == \A i \in 1..Len(tried) : ~ls_verdicts[i]

\* thbefore + s * fullstep on every worker, s = sz / 1024
MovedBy(sz) == [w \in Workers |-> [i \in 1..Dim |-> thbefore[w][i] + fullstep[i] * sz]]

\* C1: when a line search is over, the parameters are thbefore (read before
\* the first attempt) if no attempt met the acceptance rule, and then learn
\* has not raised and goes on to the value refit; otherwise they are
\* thbefore + s * fullstep for the one accepted scale s.  No rejected trial
\* point persists.
C1_LineSearchRollback ==
  LsOver =>
    /\ thbefore = th_pass
    /\ IF NoneAccepted
       THEN /\ theta = thbefore
            /\ pc # "raised"
            /\ (pc \in {"check", "vf"} \/ calls.vfupdate > 0)
       ELSE \E i \in 1..Len(tried) :
              /\ ls_verdicts[i]
              /\ \A j \in 1..Len(tried) : j # i => ~ls_verdicts[j]
              /\ theta = MovedBy(tried[i])

\* C1 witness: all ten attempts were rejected, the last trial point differs
\* from thbefore, and the value refit has been reached with thbefore restored
C1_Witness ==
  /\ pc = "report" /\ Len(tried) = 10 /\ NoneAccepted
  /\ thnew # thbefore /\ theta = thbefore /\ calls.vfupdate > 0

\* C2: the scales tried are 1, 1/2, 1/4, ... in this order, at most ten of
\* them; every attempt before the last one failed the acceptance rule; an
\* attempt that meets the rule ends the search and leaves the parameters at
\* thbefore + s * fullstep; the search ends without acceptance only after
\* the tenth attempt.
C2_LineSearchOrder ==
  /\ Len(tried) <= 10
  /\ Len(ls_verdicts) = Len(tried)
  /\ \A i \in 1..Len(tried) : tried[i] * Pow2(i - 1) = 1024
  /\ \A i \in 1..(Len(tried) - 1) : ~ls_verdicts[i]
  /\ (Len(tried) > 0 /\ ls_verdicts[Len(tried)]) =>
        pc # "ls" /\ theta = MovedBy(tried[Len(tried)])
  /\ (LsOver /\ ~ls_verdicts[Len(tried)]) => Len(tried) = 10
  /\ (LsOver /\ Len(tried) = 3 /\ ls_verdicts[3]) => theta = MovedBy(256)

\* C2 witness: scales 1 and 1/2 were rejected, 1/4 was accepted
C2_Witness ==
  /\ pc = "vf" /\ tried = <<1024, 512, 256>> /\ ls_verdicts = <<FALSE, FALSE, TRUE>>
  /\ theta = MovedBy(256) /\ theta # thbefore

\* C3: in a pass whose averaged gradient is the zero vector, set_from_flat,
\* conjugate_gradient, the Fisher-vector product and compute_losses are not
\* called and the parameters are those of the start of the pass.
C3_ZeroGradientNoMutation ==
  grad_zero =>
    /\ calls.set_from_flat = 0 /\ calls.conjugate_gradient = 0
    /\ calls.fvp = 0 /\ calls.compute_losses = 0
    /\ theta = th_pass

\* C3 witness: a zero-gradient pass that went through the value refit
C3_Witness == grad_zero /\ pc = "report" /\ calls.vfupdate > 0

\* C4: an iteration in which a pass had a zero averaged gradient raises
\* nothing (but for the fatal assertions of its other passes): it completes
\* the reporting and the statistics.
C4_ZeroGradientRecoverable ==
  (iter_zero /\ pc = "raised") => exc = "AssertionError"

\* the number of positive budget options
NumPositive == Cardinality({b \in {"iters", "timesteps", "episodes"} :
                 CASE b = "iters" -> max_iters > 0
                   [] b = "timesteps" -> max_timesteps > 0
                   [] OTHER -> max_episodes > 0})

\* nothing of the run has happened: no segment drawn (the environment is
\* first reset by the generator's first __next__), no collective, no call,
\* parameters as constructed
NothingDone ==
  /\ nsampled = 0 /\ coll = NoColl /\ calls = NoCalls
  /\ theta = [w \in Workers |-> th_init]
  /\ vfparams = [w \in Workers |-> 0]

\* C11: once conjugate_gradient has returned a step direction with a
\* non-finite entry in a pass, learn has raised AssertionError, set_from_flat
\* was not called in that pass, every worker's parameters are those of the
\* start of the pass, and no line search attempt was made.
C11_NonFiniteStepAborts ==
  calls.stepdir_nonfinite > 0 =>
    /\ pc = "raised" /\ exc = "AssertionError"
    /\ calls.set_from_flat = 0 /\ calls.compute_losses = 0
    /\ tried = <<>>
    /\ theta = th_pass

\* the second pass of an iteration breaks down after the first one moved
\* the parameters
C11_Witness ==
  /\ calls.stepdir_nonfinite > 0 /\ pc = "raised"
  /\ gpass = 1 /\ \E w \in Workers : theta[w] # th_init

\* C12: in GAIL mode, when the discriminator update of an iteration is over,
\* the policy batch was cut into exactly d_step minibatches, d_step
\* optimizer steps were made, every expert batch had the size of its policy
\* minibatch, and the expert dataset was asked for one batch per step.
C12_DiscriminatorSteps ==
  (using_gail /\ pc = "stats") =>
    /\ Len(calls.d_batches) = d_step
    /\ calls.d_update = d_step
    /\ \A k \in 1..Len(calls.d_batches) :
         calls.d_batches[k].expert = calls.d_batches[k].policy
    /\ calls.get_next_batch = calls.d_update

\* a pass is over: the value refit was reached and left
PassOver ==
  \/ pc \in {"report", "disc", "stats", "top", "returned"} /\ nsampled > 0
  \/ pc = "sample" /\ gpass > 0
  \/ pc = "raised" /\ exc = "TypeError"

\* C17: when a pass is over, vf_iters sweeps over the segment were made,
\* with vf_iters * floor(H / 128) optimizer steps in all, each on 128
\* transitions and each with one allmean of its gradient; with H < 128 the
\* value parameters are untouched.  This holds whether the policy step was
\* accepted, skipped for a zero gradient, or rolled back.
C17_ValueRefit ==
  PassOver =>
    /\ calls.vf_sweeps = vf_iters
    /\ calls.vfupdate = vf_iters * (horizon \div 128)
    /\ Len(calls.vf_batches) = calls.vfupdate
    /\ \A k \in 1..Len(calls.vf_batches) : calls.vf_batches[k] = 128
    /\ coll.allmean >= calls.vfupdate + 2
    /\ horizon < 128 => calls.vfupdate = 0

\* a pass with two full batches and a dropped remainder, after a line
\* search whose every attempt was rejected
C17_Witness ==
  /\ PassOver /\ horizon = 300 /\ calls.vfupdate = 2 * vf_iters
  /\ Len(tried) = LineSearchTries /\ NoneAccepted

\* C14: from the gradient computation of a pass to the end of its line
\* search the old policy's parameters are the policy's parameters of the start
\* of the pass: they were copied before the gradient was computed with no
\* change of the policy in between, they are not written again in the pass,
\* and in the line search they equal thbefore.
C14_OldPolicyFrozen ==
  /\ pc \in {"grad", "cg", "ls", "check", "vf"} => oldtheta = th_pass
  /\ pc \in {"grad", "cg"} => oldtheta = theta
  /\ (pc = "ls" \/ LsOver) => oldtheta = thbefore

\* in the second pass of an iteration, after the first pass moved the
\* policy, a line search attempt has moved it again
C14_Witness ==
  /\ pc = "ls" /\ gpass = 1 /\ Len(tried) >= 2
  /\ \E w \in Workers : th_pass[w] # th_init /\ theta[w] # th_pass[w]

\* C15: a standardized advantage that is not finite (zero variance of the
\* batch) never reaches the loss / gradient computation: learn has stopped
\* at the standardization step.
C15_ZeroVarianceGuarded ==
  pc = "grad" => ~AtargNaN

C18_BudgetAtTop ==
  pc = "returned" =>
    /\ max_iters > 0 => iters_so_far = max_iters
    /\ max_episodes > 0 => episodes_so_far >= max_episodes
    /\ max_timesteps > 0 => timesteps_so_far >= max_timesteps

\* C8: learn called with two or three positive budget options, or none,
\* fails at startup with nothing done; with exactly one, the startup check
\* passes.
C8_BudgetCheck ==
  op = "learn" =>
    IF NumPositive # 1
    THEN pc = "raised" /\ exc = "AssertionError" /\ NothingDone
    ELSE ~(pc = "raised" /\ exc = "AssertionError" /\ nsampled = 0)

\* C8 witness: learn failed at startup with two positive budget options
C8_Witness ==
  /\ op = "learn" /\ pc = "raised" /\ exc = "AssertionError"
  /\ max_iters > 0 /\ max_timesteps > 0 /\ max_episodes <= 0

\* C9: save and load raise NotImplementedError; so does learn, before any
\* iteration, whenever pretrained_weight is not None (stated here for the
\* configurations that pass the budget check), with and without GAIL.
C9_UnsupportedRaises ==
  /\ op \in {"save", "load"} => pc = "raised" /\ exc = "NotImplementedError"
  /\ (op = "learn" /\ pretrained_weight # "None" /\ NumPositive = 1) =>
        pc = "raised" /\ exc = "NotImplementedError" /\ nsampled = 0

\* C10: with more than one worker, a policy update at an iteration index
\* that is a multiple of 20 is followed by the all-gathered comparison, and
\* the comparison is passed only by workers whose parameter vectors and value
\* optimizer states are equal.
C10_CheckCatchesDivergence ==
  /\ (pc = "vf" /\ nworkers > 1 /\ iters_so_far % 20 = 0) => check_done
  /\ (check_done /\ pc # "raised") =>
        \A w \in Workers : theta[w] = theta[1] /\ vfparams[w] = vfparams[1]

(***************************************************************************)
(* Properties of traj_segment_generator                                    *)
(***************************************************************************)
\* environment steps taken before the window of the segment last yielded
WinLo == (nyield - 1) * horizon

\* the step that ended the episode before the one step n belongs to (0 if none)
LastDoneBefore(n) ==
  CHOOSE m \in 0..(n - 1) : /\ (m = 0 \/ hist[m].done = 1)
                            /\ \A j \in (m + 1)..(n - 1) : hist[j].done = 0

\* the steps in lo+1..hi that ended an episode, in order
RECURSIVE EndedIn(_, _)
EndedIn(lo, hi) ==
  IF hi <= lo THEN <<>>
  ELSE EndedIn(lo, hi - 1) \o (IF hist[hi].done = 1 THEN <<hi>> ELSE <<>>)

RECURSIVE SumRew(_, _, _)
SumRew(lo, hi, field) ==
  IF hi <= lo THEN 0 ELSE hist[hi][field] + SumRew(lo, hi - 1, field)

\* C5: the k-th segment is yielded after exactly k * H environment steps,
\* slot i of every per-step array holds transition (k-1) * H + i, and the
\* episode lists hold, in order, exactly the episodes that ended inside the
\* window: none that ended before it, none still running.
C5_SegmentWindow ==
  gen_pc = "yielded" =>
    LET ended == EndedIn(WinLo, WinLo + horizon)
    IN /\ nyield >= 1
       /\ envsteps = nyield * horizon
       /\ \A a \in {observations, rews, true_rews, vpreds, news, actions, prev_actions} :
            Len(a) = horizon
       /\ \A i \in 1..horizon :
            /\ Seg.ob[i] = hist[WinLo + i].ob
            /\ Seg.ac[i] = hist[WinLo + i].ac
            /\ Seg.prevac[i] = hist[WinLo + i].prevac
            /\ Seg.vpred[i] = hist[WinLo + i].vpred
            /\ Seg.new[i] = hist[WinLo + i].new
            /\ Seg.rew[i] = hist[WinLo + i].rew
            /\ true_rews[i] = hist[WinLo + i].true_rew
       /\ Seg.ep_lens = [j \in 1..Len(ended) |-> ended[j] - LastDoneBefore(ended[j])]
       /\ Seg.ep_rets =
            [j \in 1..Len(ended) |-> SumRew(LastDoneBefore(ended[j]), ended[j], "rew")]
       /\ Seg.ep_true_rets =
            [j \in 1..Len(ended) |-> SumRew(LastDoneBefore(ended[j]), ended[j], "true_rew")]

\* a second segment whose window is entered and left in mid-episode, with an
\* episode that ended before the window and one that ended inside it
C5_Witness ==
  /\ gen_pc = "yielded" /\ nyield = 2 /\ horizon >= 2
  /\ hist[WinLo].done = 0 /\ hist[envsteps].done = 0
  /\ \E m \in 1..WinLo : hist[m].done = 1
  /\ Len(Seg.ep_lens) >= 1

\* C6: nextvpred of a yielded segment is 0 if the last transition of the
\* segment ended an episode, and otherwise the value predicted by the query
\* made just before the yield, which was made for the observation that
\* follows the last transition.
C6_NextVpred ==
  gen_pc = "yielded" =>
    LET last == hist[envsteps]
        q == queries[Len(queries)]
    IN IF last.done = 1
         THEN Seg.nextvpred = 0
         ELSE Seg.nextvpred = q.vpred /\ q.ob = last.next_ob /\ q.vpred # 0

\* a second segment that ends with the end of an episode, after a first one
\* that did not
C6_Witness ==
  /\ gen_pc = "yielded" /\ nyield = 2
  /\ hist[envsteps].done = 1 /\ hist[WinLo].done = 0
  /\ new = 1 /\ vpred # 0

\* the full length, and the full sums of a reward field, of every episode
\* ended so far, in order
FullLens ==
  LET ended == EndedIn(0, envsteps)
  IN [j \in 1..Len(ended) |-> ended[j] - LastDoneBefore(ended[j])]

FullSums(field) ==
  LET ended == EndedIn(0, envsteps)
  IN [j \in 1..Len(ended) |-> SumRew(LastDoneBefore(ended[j]), ended[j], field)]

\* the entries handed out by the yields so far, then those appended since
\* the generator was last resumed
AllEntries(list, pending) ==
  emitted[list] \o (IF gen_pc = "yielded" THEN <<>> ELSE pending)

\* C16: the entries of ep_lens, ep_rets and ep_true_rets, emitted or pending,
\* are the full lengths and the full reward sums of the episodes ended so
\* far, wherever the episodes began; and the sum of all ep_lens entries plus
\* cur_ep_len is the number of environment steps taken.
C16_EpisodeAccounting ==
  gen_pc # "created" =>
    /\ AllEntries("ep_lens", ep_lens) = FullLens
    /\ AllEntries("ep_rets", ep_rets) = FullSums("rew")
    /\ AllEntries("ep_true_rets", ep_true_rets) = FullSums("true_rew")
    /\ LET lens == AllEntries("ep_lens", ep_lens)
       IN SumTo(lens, Len(lens)) + cur_ep_len = envsteps

\* the second segment reports an episode that is longer than a segment
C16_Witness ==
  /\ gen_pc = "yielded" /\ nyield = 2
  /\ Len(Seg.ep_lens) >= 1 /\ Seg.ep_lens[1] > horizon
  /\ cur_ep_len > 0

\* the first transition of a segment after the first
LeadsSegment(n) == n > horizon /\ (n - 1) % horizon = 0

\* C19: a yield is directly preceded by a policy query; the first transition
\* of every segment after the first records the value predicted by the query
\* made on resumption and the action sampled by the query before the yield,
\* the two queries are consecutive and on the observation of that transition;
\* and there is no other query than one per step and one per resumption.
C19_QueriesAtBoundary ==
  /\ gen_pc = "yielded" => queries[Len(queries)].at = "loop"
  /\ \A n \in 1..Len(hist) :
       LeadsSegment(n) =>
         \E p \in 2..Len(queries) :
           /\ queries[p].at = "resume" /\ queries[p - 1].at = "loop"
           /\ queries[p].ob = hist[n].ob /\ queries[p - 1].ob = hist[n].ob
           /\ hist[n].vpred = queries[p].vpred
           /\ hist[n].ac = queries[p - 1].ac
           /\ hist[n].vpred # queries[p - 1].vpred
  /\ Len(queries) = envsteps + nyield
                     + (IF gen_pc = "store" THEN 1 ELSE 0)

\* the third segment has been started
C19_Witness ==
  /\ envsteps = 2 * horizon + 1 /\ horizon >= 2
  /\ vpreds[1] = hist[envsteps].vpred /\ actions[1] = hist[envsteps].ac

\* C20: in a yielded segment given to add_vtarg_and_adv, every step whose
\* transition ended an episode, the last step included, has
\* adv = rew - vpred and tdlamret = rew (in units of 1 / 4 ^ H).
C20_NoLeakAcrossEpisodes ==
  (gen_pc = "yielded" /\ adv # <<>>) =>
    \A t \in 1..horizon :
      hist[WinLo + t].done = 1 =>
        /\ adv[t] = GaeScale(horizon) * (rews[t] - vpreds[t])
        /\ tdlamret[t] = GaeScale(horizon) * rews[t]

\* a second segment of two or more steps with an episode ending inside it
\* and another at its last step, with gamma = lam = 1
C20_Witness ==
  /\ gen_pc = "yielded" /\ adv # <<>> /\ nyield = 2 /\ horizon >= 2
  /\ hist[envsteps].done = 1 /\ hist[WinLo + 1].done = 1
  /\ gamma2 = 2 /\ lam2 = 2

(***************************************************************************)
(* Properties of learn with its generator                                  *)
(***************************************************************************)
\* learn holds a segment and is outside seg_gen.__next__()
HoldsSegment == pc \in {"grad", "cg", "ls", "check", "vf", "report", "disc", "stats"}

\* C21: every read learn makes of per-step arrays goes through a local bound
\* to the segment drawn last; while learn holds a segment the generator is
\* suspended in the yield of that segment and its buffers hold that
\* segment's transitions; and the buffers are reused: once the next segment
\* is yielded they no longer hold any observation of the one before.
C21_ReadsBeforeNextRequest ==
  /\ \A r \in reads : r.current
  /\ HoldsSegment =>
       /\ gen_pc = "yielded" /\ nyield = nsampled
       /\ \A i \in 1..horizon :
            /\ observations[i] = hist[WinLo + i].ob
            /\ actions[i] = hist[WinLo + i].ac
            /\ vpreds[i] = hist[WinLo + i].vpred
            /\ rews[i] = hist[WinLo + i].rew
            /\ news[i] = hist[WinLo + i].new
            /\ prev_actions[i] = hist[WinLo + i].prevac
  /\ (gen_pc = "yielded" /\ nyield >= 2) =>
       \A i \in 1..horizon, j \in 1..horizon :
         observations[i] # hist[WinLo - horizon + j].ob

\* GAIL with two passes per iteration: the discriminator update has read the
\* second segment after every kind of read was made of the first
C21_Witness ==
  /\ using_gail /\ g_step = 2 /\ horizon = 2 /\ pc = "stats" /\ nsampled = 2
  /\ \E r \in reads : r.by = "discriminator"
  /\ \E r \in reads : r.by = "losses"
  /\ \E r \in reads : r.by = "vf"

\* C22: at every iteration boundary episodes_so_far is the number of
\* episodes completed in all the segments drawn so far and timesteps_so_far
\* the total length of those episodes.
C22_CountersMatchEpisodes ==
  pc = "top" =>
    /\ episodes_so_far = Len(EndedIn(0, envsteps))
    /\ timesteps_so_far = SumTo(FullLens, Len(FullLens))

(***************************************************************************)
(* Properties of add_vtarg_and_adv                                         *)
(***************************************************************************)
\* V(t + 1) and nonterminal_t of the recursion, t counted from 1
VNext(t) == IF t < horizon THEN gae_in.vpred[t + 1] ELSE gae_in.nextvpred

NontermAt(t) == IF t < horizon THEN 1 - gae_in.new[t + 1] ELSE 1

AdvAt(t) == IF t <= horizon THEN adv[t] ELSE 0

\* C7: adv and tdlamret have length H; with s = 4 ^ H the scale they are held
\* in, gamma = gamma2 / 2 and lam = lam2 / 2, for every t
\*   adv[t] = rew[t] + gamma * V(t+1) * nonterminal_t - vpred[t]
\*            + gamma * lam * nonterminal_t * adv[t+1]
\* (stated times 4 s), tdlamret[t] = adv[t] + vpred[t], and rew, vpred, new
\* and nextvpred are what they were before the call.
C7_GaeRecursion ==
  adv # <<>> =>
    LET s == GaeScale(horizon)
    IN /\ Len(adv) = horizon /\ Len(tdlamret) = horizon
       /\ \A t \in 1..horizon :
            /\ 4 * adv[t] = 4 * s * gae_in.rew[t]
                            + 2 * s * gamma2 * VNext(t) * NontermAt(t)
                            - 4 * s * gae_in.vpred[t]
                            + gamma2 * lam2 * NontermAt(t) * AdvAt(t + 1)
            /\ tdlamret[t] = adv[t] + s * gae_in.vpred[t]
       /\ rews = gae_in.rew /\ vpreds = gae_in.vpred /\ news = gae_in.new
       /\ seg.nextvpred = gae_in.nextvpred

\* a segment of two or more steps whose second step starts a new episode,
\* with discounting and a non-zero lambda
C7_Witness ==
  /\ Len(adv) >= 2 /\ news[1] = 0 /\ news[2] = 1
  /\ gamma2 = 1 /\ lam2 = 1 /\ vpreds[2] # 0 /\ adv[2] # 0

====
